---------------------------- MODULE Spec2Model ----------------------------
(***************************************************************************)
(* GassyBot (src/bot.py): the scheduled price updater (a discord.ext.tasks *)
(* loop), the on-demand "prices" command, the provider session they share  *)
(* through one GasPriceService object, and the process life cycle of       *)
(* main().                                                                 *)
(*                                                                         *)
(* Concurrency is asyncio's: one step of the model is the code a task runs *)
(* between two awaits.  Time is counted in whole hours, the unit of the    *)
(* timer's period; a cycle's body (a 0.5 s fetch and one send) takes less  *)
(* than an hour, so hours pass only while the loop sleeps.                 *)
(***************************************************************************)
EXTENDS Integers, FiniteSets, Sequences

\* ------------------------------------------------------------- bounds ----
\* Number of on-demand invocations of "!gas prices" in one run.
MaxCmd == 1
\* UPDATE_INTERVAL_HOURS ranges over 1..MaxHours.
MaxHours == 2
\* The length up to which a streak of failing scheduled cycles is counted.
MaxCount == 2
\* Calls made to the updater's start and stop in one sequence.
MaxCalls == 4
\* The parts the price variation's range is cut into on each side of zero.
VariationSteps == 1

\* ---------------------------------------------------------- constants ----
\* @tasks.loop(hours=6): the period the timer is created with.
DefaultHours == 6
\* The id DISCORD_CHANNEL_ID names when it is set.
ConfiguredChannel == 10
\* A conversation that is not the configured channel.
OtherChannel == 20
\* Python's None, and int(os.getenv('DISCORD_CHANNEL_ID', '0')) when unset.
None == 0
\* on_ready has not run yet.
Unset == -1
\* The largest price variation of fetch_gas_prices, in cents.
MaxVariation == 20
\* GasPriceService.session before any __aenter__ (None).
NoSession == -1
\* GasPriceService.session holds a closed session whose cycle has ended.
Stale == -2

Invocations == 1..MaxCmd
\* The scheduled cycle's name among the cycles that use the service.
Sched == 0
Owners == {Sched} \cup Invocations
Conversations == {ConfiguredChannel, OtherChannel}
HoursValues == 1..MaxHours

Min(a, b) == IF a < b THEN a ELSE b
\* A streak's length, counted up to MaxCount.
Bump(n) == Min(n + 1, MaxCount)
\* A number of events, counted as none, one or several.
Count(n) == Min(n + 1, 2)

\* What DISCORD_CHANNEL_ID can hold: nothing, the empty string, text that is
\* no number, or the digits of the configured channel's id.
ChannelEnvValues == {"unset", "empty", "text", "digits"}

\* int(v) raises ValueError for v.
IntFails(v) == v \in {"empty", "text"}

\* int(os.getenv('DISCORD_CHANNEL_ID', '0')) where int() returns.
ChannelIdOf(v) == IF v = "digits" THEN ConfiguredChannel ELSE None

VARIABLES
    \* the environment: DISCORD_TOKEN is set and not empty; DISCORD_CHANNEL_ID
    token, channel_env,
    \* configuration, read once (bot.py 108-110)
    target_channel_id, update_interval_hours,
    \* the argument and the result of a function checked on its own
    pureIn, pureOut,
    \* main(): "main", "login", "serving", "closing", "returned", then the
    \* script's end, "exited" or "crashed"
    mainPc,
    \* the gateway: readiness has fired; the configured channel is in the cache
    ready, visible,
    \* what on_ready's lookup found (the line it logs): Unset, None or the id
    readyChannel,
    \* the tasks.Loop of price_updater
    running, period, loopPc, sleepLeft,
    \* GasPriceService.session: NoSession, Stale or the cycle in flight that
    \* created the session it holds
    session,
    \* per cycle in flight: the state of the session it created
    mine,
    \* sessions created by __aenter__ and sessions closed by __aexit__ so far
    acquired, released,
    \* the current (or last) scheduled tick
    tick,
    \* the on-demand invocations
    cmd,
    \* history
    hist

cfgVars == <<token, channel_env, target_channel_id, update_interval_hours, pureIn, pureOut>>
envVars == <<ready, visible, readyChannel>>
loopVars == <<running, period, loopPc, sleepLeft, tick>>
svcVars == <<session, mine, acquired, released>>
vars == <<cfgVars, mainPc, envVars, loopVars, svcVars, cmd, hist>>

\* A tick that has not resolved anything yet.
NoTick == [chan |-> None, avail |-> FALSE, fetched |-> FALSE, sendTried |-> FALSE,
           to |-> None]

\* An invocation that has not arrived.
NoCmd == [pc |-> "idle", conv |-> None, to |-> None, failed |-> FALSE,
          tried |-> {}, got |-> {}]

\* No function is being checked on its own.
NoCall == [fn |-> "none"]

\* The environment the script is started in.
Environment ==
    /\ token \in BOOLEAN
    /\ channel_env \in ChannelEnvValues
    /\ update_interval_hours \in HoursValues
    /\ visible \in BOOLEAN

\* Nothing has run yet.
Unstarted ==
    /\ target_channel_id = ChannelIdOf(channel_env)
    /\ mainPc = "main"
    /\ ready = FALSE
    /\ readyChannel = Unset
    /\ running = FALSE
    /\ period = DefaultHours
    /\ loopPc = "unstarted"
    /\ sleepLeft = 0
    /\ session = NoSession
    /\ mine = [o \in Owners |-> "none"]
    /\ acquired = 0
    /\ released = 0
    /\ tick = NoTick
    /\ cmd = [i \in Invocations |-> NoCmd]
    /\ hist = [ticks |-> 0, failStreak |-> 0, lastResult |-> "Unset",
               elapsed |-> 0, lastGap |-> Unset, setPeriods |-> 0,
               firstPeriod |-> Unset, started |-> FALSE, armed |-> 0,
               exitStatus |-> Unset]

Init ==
    /\ Environment
    /\ Unstarted
    /\ pureIn = NoCall
    /\ pureOut = NoCall

\* The tasks and the gateway run while the event loop of asyncio.run does.
Alive == mainPc \in {"serving", "closing"}

\* ------------------------------------------------------ GasPriceService ----
\* __aenter__ by cycle o: a new ClientSession replaces whatever self.session
\* held.
aenter(o) ==
    /\ session' = o
    /\ mine' = [mine EXCEPT ![o] = "open"]
    /\ acquired' = Count(acquired)
    /\ UNCHANGED released

\* __aexit__ by cycle o: closes the session self.session holds now, if any;
\* o's own session is then out of use.
aexit(o) ==
    LET live == session \in Owners
        closed == IF live THEN [mine EXCEPT ![session] = "closed"] ELSE mine
    IN  /\ released' = IF live /\ mine[session] = "open" THEN Count(released) ELSE released
        /\ mine' = [closed EXCEPT ![o] = "none"]
        /\ session' = IF session = o THEN Stale ELSE session
        /\ UNCHANGED acquired

\* ----------------------------------------------------------------- main ----
\* main() up to bot.start(): without the credential it logs and returns, and
\* the script ends with status 0; GassyBot() raises ValueError out of main()
\* when int() cannot read DISCORD_CHANNEL_ID (status 1); otherwise the bot is
\* constructed and bot.start() called.
Main ==
    /\ mainPc = "main"
    /\ IF ~token
         THEN /\ mainPc' = "exited"
              /\ hist' = [hist EXCEPT !.exitStatus = 0]
         ELSE IF IntFails(channel_env)
           THEN /\ mainPc' = "crashed"
                /\ hist' = [hist EXCEPT !.exitStatus = 1]
           ELSE /\ mainPc' = "login"
                /\ hist' = [hist EXCEPT !.started = TRUE]
    /\ UNCHANGED <<cfgVars, envVars, loopVars, svcVars, cmd>>

\* bot.start() raises before setup_hook runs (login refused): logged, then
\* the finally clause closes the bot and main returns.
StartFails ==
    /\ mainPc = "login"
    /\ mainPc' = "exited"
    /\ hist' = [hist EXCEPT !.exitStatus = 0]
    /\ UNCHANGED <<cfgVars, envVars, loopVars, svcVars, cmd>>

\* self.price_updater.is_running()
is_running == running

\* Mutant: start() is called whether the updater runs or not.
start_unguarded ==
    /\ running' = TRUE
    /\ loopPc' = "before_loop"
    /\ hist' = [hist EXCEPT !.armed = @ + 1]

\* "if not self.price_updater.is_running(): self.price_updater.start()":
\* a timer is armed unless one is.
start_if_idle ==
    IF ~is_running
      THEN /\ running' = TRUE
           /\ loopPc' = "before_loop"
           /\ hist' = [hist EXCEPT !.armed = @ + 1]
      ELSE UNCHANGED <<running, loopPc, hist>>

\* setup_hook: the service object is created and the updater started once.
setup_hook ==
    /\ mainPc = "login"
    /\ mainPc' = "serving"
    /\ start_if_idle
    /\ UNCHANGED <<cfgVars, envVars, period, sleepLeft, tick, svcVars, cmd>>

\* self.get_channel(id): the cache lookup.
get_channel(id) == IF id = ConfiguredChannel /\ visible THEN id ELSE None

\* on_ready: readiness fires (again after every reconnect); the target
\* channel is looked up for the log only.
on_ready ==
    /\ mainPc = "serving"
    /\ ready' = TRUE
    /\ readyChannel' = IF target_channel_id # None
                         THEN get_channel(target_channel_id)
                         ELSE readyChannel
    /\ UNCHANGED <<cfgVars, mainPc, visible, loopVars, svcVars, cmd, hist>>

\* The gateway: the configured channel leaves or enters the cache.
ChannelChange ==
    /\ mainPc = "serving"
    /\ visible' = ~visible
    /\ UNCHANGED <<cfgVars, mainPc, ready, readyChannel, loopVars, svcVars, cmd, hist>>

\* main()'s finally clause: interrupt or fatal error ends bot.start();
\* bot.close() is awaited while the other tasks still run.
Close ==
    /\ mainPc = "serving"
    /\ mainPc' = "closing"
    /\ UNCHANGED <<cfgVars, envVars, loopVars, svcVars, cmd, hist>>

\* ---------------------------------------------------------- price_updater ----
\* Mutant: the hook does not wait.
no_wait == TRUE

\* await self.wait_until_ready(): resolves once readiness has fired.
wait_until_ready == ready

\* Mutant: the call leaves the period as it is.
change_interval_ignored(h) == period

\* price_updater.change_interval(hours=h): the period of the fires to come.
change_interval(h) == h

\* Mutant: the hook waits for readiness and does not retarget the period.
before_price_updater_no_retarget ==
    /\ Alive
    /\ loopPc = "before_loop"
    /\ wait_until_ready
    /\ loopPc' = "sleeping"
    /\ sleepLeft' = 0
    /\ UNCHANGED <<cfgVars, mainPc, envVars, running, period, tick, svcVars, cmd, hist>>

\* before_price_updater, the loop's pre-loop hook: waits for readiness, then
\* retargets the period; the loop then runs its first iteration at once.
before_price_updater ==
    /\ Alive
    /\ loopPc = "before_loop"
    /\ wait_until_ready
    /\ period' = change_interval(update_interval_hours)
    /\ loopPc' = "sleeping"
    /\ sleepLeft' = 0
    /\ hist' = [hist EXCEPT !.setPeriods = Count(@)]
    /\ UNCHANGED <<cfgVars, mainPc, envVars, running, tick, svcVars, cmd>>

\* One hour of the loop's sleep passes.
Hour ==
    /\ Alive
    /\ loopPc = "sleeping"
    /\ sleepLeft > 0
    /\ sleepLeft' = sleepLeft - 1
    /\ hist' = [hist EXCEPT !.elapsed = @ + 1]
    /\ UNCHANGED <<cfgVars, mainPc, envVars, running, period, loopPc, tick, svcVars, cmd>>

\* The timer is due: the loop calls price_updater.
Due == Alive /\ running /\ loopPc = "sleeping" /\ sleepLeft = 0

\* The history of a fire: its number, and the hours since the fire before it.
Fired(h) ==
    [h EXCEPT !.ticks = Count(@),
              !.lastGap = IF h.ticks > 0 THEN h.elapsed ELSE @,
              !.elapsed = 0,
              !.firstPeriod = IF h.ticks = 0 THEN period ELSE @]

\* The history of a cycle's end.
Ended(h, result) ==
    [h EXCEPT !.lastResult = result,
              !.failStreak = IF result = "Err" THEN Bump(@) ELSE 0]

\* Mutant: the tick uses the channel on_ready found.
ResolveTarget_cached == IF readyChannel = Unset THEN None ELSE readyChannel

\* The channel a tick posts to: looked up when the tick runs.
ResolveTarget == get_channel(target_channel_id)

\* price_updater, no target channel configured: warning, return.
price_updater_no_target ==
    /\ Due
    /\ target_channel_id = None
    /\ tick' = NoTick
    /\ sleepLeft' = period
    /\ hist' = Ended(Fired(hist), "Skip")
    /\ UNCHANGED <<cfgVars, mainPc, envVars, running, period, loopPc, svcVars, cmd>>

\* Mutant: the "return" is missing and the tick goes on to the fetch.
price_updater_no_channel_proceeds ==
    /\ Due
    /\ target_channel_id # None
    /\ ResolveTarget = None
    /\ tick' = [NoTick EXCEPT !.avail = visible]
    /\ aenter(Sched)
    /\ loopPc' = "fetch"
    /\ hist' = Fired(hist)
    /\ UNCHANGED <<cfgVars, mainPc, envVars, running, period, sleepLeft, cmd>>

\* price_updater, the channel is not found: error logged, return.
price_updater_no_channel ==
    /\ Due
    /\ target_channel_id # None
    /\ ResolveTarget = None
    /\ tick' = [NoTick EXCEPT !.avail = visible]
    /\ sleepLeft' = period
    /\ hist' = Ended(Fired(hist), "Skip")
    /\ UNCHANGED <<cfgVars, mainPc, envVars, running, period, loopPc, svcVars, cmd>>

\* price_updater, the channel is found: the service is entered and the fetch
\* awaited.
price_updater_begin ==
    /\ Due
    /\ target_channel_id # None
    /\ ResolveTarget # None
    /\ tick' = [NoTick EXCEPT !.chan = ResolveTarget, !.avail = visible]
    /\ aenter(Sched)
    /\ loopPc' = "fetch"
    /\ hist' = Fired(hist)
    /\ UNCHANGED <<cfgVars, mainPc, envVars, running, period, sleepLeft, cmd>>

\* The fetch returns (fetch_gas_prices catches its own errors), the embed is
\* built and channel.send awaited.
price_updater_fetched ==
    /\ Alive
    /\ loopPc = "fetch"
    /\ loopPc' = "send"
    /\ tick' = [tick EXCEPT !.fetched = TRUE, !.sendTried = TRUE, !.to = tick.chan]
    /\ UNCHANGED <<cfgVars, mainPc, envVars, running, period, sleepLeft, svcVars, cmd, hist>>

\* channel.send returns: logged, the service is left, the loop sleeps.
price_updater_sent ==
    /\ Alive
    /\ loopPc = "send"
    /\ aexit(Sched)
    /\ loopPc' = "sleeping"
    /\ sleepLeft' = period
    /\ hist' = Ended(hist, "Ok")
    /\ UNCHANGED <<cfgVars, mainPc, envVars, running, period, tick, cmd>>

\* Mutant: the error is not caught in the tick and ends the loop's task.
price_updater_failed_escapes ==
    /\ Alive
    /\ loopPc = "send"
    /\ aexit(Sched)
    /\ loopPc' = "dead"
    /\ running' = FALSE
    /\ hist' = Ended(hist, "Err")
    /\ UNCHANGED <<cfgVars, mainPc, envVars, period, sleepLeft, tick, cmd>>

\* channel.send raises: the service is left, "except Exception" logs the
\* error and the tick returns normally; the loop sleeps.
price_updater_failed ==
    /\ Alive
    /\ loopPc = "send"
    /\ aexit(Sched)
    /\ loopPc' = "sleeping"
    /\ sleepLeft' = period
    /\ hist' = Ended(hist, "Err")
    /\ UNCHANGED <<cfgVars, mainPc, envVars, running, period, tick, cmd>>

\* ------------------------------------------------------------- get_prices ----
\* Mutant: replies go to the configured channel when there is one.
ReplyTarget_fallback(i) ==
    IF target_channel_id # None THEN target_channel_id ELSE cmd[i].conv

\* ctx.send(...): a command's reply goes to the conversation it came from.
ReplyTarget(i) == cmd[i].conv

\* Invocation i awaits ctx.send of a reply of the given kind.
Sending(c, i, kind) ==
    [c EXCEPT ![i].tried = @ \cup {kind}, ![i].to = ReplyTarget(i)]

\* Invocation i is over and its context gone; with kind # "", the reply of
\* that kind has been delivered.
Over(c, i, pc, kind) ==
    [c EXCEPT ![i].pc = pc, ![i].conv = None, ![i].to = None,
              ![i].got = IF kind = "" THEN @ ELSE @ \cup {kind}]

\* "!gas prices" arrives in conversation c and is dispatched to get_prices,
\* as its @commands.command declaration says; get_prices awaits ctx.typing().
\* Invocations are numbered in the order they arrive.
get_prices(i, c) ==
    /\ mainPc = "serving"
    /\ cmd[i].pc = "idle"
    /\ \A j \in Invocations : j < i => cmd[j].pc # "idle"
    /\ cmd' = [cmd EXCEPT ![i] = [NoCmd EXCEPT !.pc = "typing", !.conv = c]]
    /\ UNCHANGED <<cfgVars, mainPc, envVars, loopVars, svcVars, hist>>

\* The typing indicator is on: the service is entered and the fetch awaited.
get_prices_begin(i) ==
    /\ Alive
    /\ cmd[i].pc = "typing"
    /\ aenter(i)
    /\ cmd' = [cmd EXCEPT ![i].pc = "fetch"]
    /\ UNCHANGED <<cfgVars, mainPc, envVars, loopVars, hist>>

\* The fetch returns, the embed is built and ctx.send awaited.
get_prices_fetched(i) ==
    /\ Alive
    /\ cmd[i].pc = "fetch"
    /\ cmd' = [Sending(cmd, i, "result") EXCEPT ![i].pc = "send"]
    /\ UNCHANGED <<cfgVars, mainPc, envVars, loopVars, svcVars, hist>>

\* ctx.send returns: logged, the service is left, the command is over.
get_prices_sent(i) ==
    /\ Alive
    /\ cmd[i].pc = "send"
    /\ aexit(i)
    /\ cmd' = Over(cmd, i, "done", "result")
    /\ UNCHANGED <<cfgVars, mainPc, envVars, loopVars, hist>>

\* Mutant: the except clause logs the error and sends nothing.
get_prices_failed_silent(i) ==
    /\ Alive
    /\ cmd[i].pc = "send"
    /\ aexit(i)
    /\ cmd' = Over([cmd EXCEPT ![i].failed = TRUE], i, "done", "")
    /\ UNCHANGED <<cfgVars, mainPc, envVars, loopVars, hist>>

\* ctx.send raises: the service is left, "except Exception" logs the error
\* and awaits ctx.send of the apology.
get_prices_failed(i) ==
    /\ Alive
    /\ cmd[i].pc = "send"
    /\ aexit(i)
    /\ cmd' = [Sending([cmd EXCEPT ![i].failed = TRUE], i, "apology")
                 EXCEPT ![i].pc = "apology"]
    /\ UNCHANGED <<cfgVars, mainPc, envVars, loopVars, hist>>

\* The apology is delivered: the command is over.
get_prices_apologised(i) ==
    /\ Alive
    /\ cmd[i].pc = "apology"
    /\ cmd' = Over(cmd, i, "done", "apology")
    /\ UNCHANGED <<cfgVars, mainPc, envVars, loopVars, svcVars, hist>>

\* ------------------------------------------------------- on_command_error ----
\* The message on_command_error answers an error with ("" for none).
ErrorReply(error) ==
    CASE error = "CommandNotFound" -> ""
      [] error = "MissingPermissions" -> "no_permission"
      [] error = "BotMissingPermissions" -> "need_permissions"
      [] OTHER -> "generic"

\* on_command_error for invocation i: logs and awaits ctx.send of its message.
on_command_error(i, error) ==
    IF ErrorReply(error) = ""
      THEN cmd' = Over(cmd, i, "done", "")
      ELSE cmd' = [Sending(cmd, i, ErrorReply(error)) EXCEPT ![i].pc = "error_send"]

\* ------------------------------------------------- get_area, get_status ----
\* Mutant: the status command restarts the updater with its default period.
get_status_restarts(i, c) ==
    /\ mainPc = "serving"
    /\ cmd[i].pc = "idle"
    /\ \A j \in Invocations : j < i => cmd[j].pc # "idle"
    /\ cmd' = [Sending([cmd EXCEPT ![i].conv = c], i, "status")
                 EXCEPT ![i].pc = "status_send"]
    /\ period' = DefaultHours
    /\ UNCHANGED <<cfgVars, mainPc, envVars, running, loopPc, sleepLeft, tick,
                   svcVars, hist>>

\* "!gas area" arrives in conversation c: get_area builds its embed from
\* self.area and self.update_interval_hours and awaits ctx.send.
get_area(i, c) ==
    /\ mainPc = "serving"
    /\ cmd[i].pc = "idle"
    /\ \A j \in Invocations : j < i => cmd[j].pc # "idle"
    /\ cmd' = [Sending([cmd EXCEPT ![i].conv = c], i, "area")
                 EXCEPT ![i].pc = "area_send"]
    /\ UNCHANGED <<cfgVars, mainPc, envVars, loopVars, svcVars, hist>>

\* "!gas status" arrives in conversation c: get_status reads
\* price_updater.is_running() and next_iteration into its embed and awaits
\* ctx.send.
get_status(i, c) ==
    /\ mainPc = "serving"
    /\ cmd[i].pc = "idle"
    /\ \A j \in Invocations : j < i => cmd[j].pc # "idle"
    /\ cmd' = [Sending([cmd EXCEPT ![i].conv = c], i,
                        IF is_running THEN "status" ELSE "status_disabled")
                 EXCEPT ![i].pc = "status_send"]
    /\ UNCHANGED <<cfgVars, mainPc, envVars, loopVars, svcVars, hist>>

\* ctx.send of get_area returns: the command is over.
get_area_sent(i) ==
    /\ Alive
    /\ cmd[i].pc = "area_send"
    /\ cmd' = Over(cmd, i, "done", "area")
    /\ UNCHANGED <<cfgVars, mainPc, envVars, loopVars, svcVars, hist>>

\* ctx.send of get_status returns: the command is over.
get_status_sent(i) ==
    /\ Alive
    /\ cmd[i].pc = "status_send"
    /\ \E kind \in cmd[i].tried : cmd' = Over(cmd, i, "done", kind)
    /\ UNCHANGED <<cfgVars, mainPc, envVars, loopVars, svcVars, hist>>

\* ctx.send of get_area or get_status raises: the command ends with the
\* error, which the global handler gets.
info_send_failed(i) ==
    /\ Alive
    /\ cmd[i].pc \in {"area_send", "status_send"}
    /\ on_command_error(i, "CommandInvokeError")
    /\ UNCHANGED <<cfgVars, mainPc, envVars, loopVars, svcVars, hist>>

\* ctx.typing() raises: the command ends with the error, which the global
\* handler gets.
get_prices_typing_failed(i) ==
    /\ Alive
    /\ cmd[i].pc = "typing"
    /\ on_command_error(i, "CommandInvokeError")
    /\ UNCHANGED <<cfgVars, mainPc, envVars, loopVars, svcVars, hist>>

\* The apology's send raises inside the except clause: the command ends with
\* the error, which the global handler gets.
get_prices_apology_failed(i) ==
    /\ Alive
    /\ cmd[i].pc = "apology"
    /\ on_command_error(i, "CommandInvokeError")
    /\ UNCHANGED <<cfgVars, mainPc, envVars, loopVars, svcVars, hist>>

\* The handler's message is delivered (ok) or its send raises too, which is
\* logged by the library and goes no further.
on_command_error_sent(i, ok) ==
    /\ Alive
    /\ cmd[i].pc = "error_send"
    /\ cmd' = Over(cmd, i, "done", IF ok THEN "generic" ELSE "")
    /\ UNCHANGED <<cfgVars, mainPc, envVars, loopVars, svcVars, hist>>

\* --------------------------------------------------------------- shutdown ----
\* The cycles between __aenter__ and __aexit__.
InFlight == {o \in Owners : mine[o] # "none"}

\* bot.close() has returned and main() returns: nothing has stopped the
\* updater or left the service.
Return ==
    /\ mainPc = "closing"
    /\ mainPc' = "returned"
    /\ UNCHANGED <<cfgVars, envVars, loopVars, svcVars, cmd, hist>>

\* asyncio.run cancels the tasks left and the script ends: the updater's task
\* ends, and every cycle inside "async with" leaves it through __aexit__.
\* The status is 0 when an error caught in main() ended bot.start(), and
\* not 0 when an interrupt did, which asyncio.run raises again.
Exit ==
    /\ mainPc = "returned"
    /\ mainPc' = "exited"
    /\ \E status \in {0, 1} :
         hist' = [hist EXCEPT !.exitStatus = status, !.armed = 0]
    /\ running' = FALSE
    /\ loopPc' = IF loopPc = "unstarted" THEN loopPc ELSE "dead"
    /\ released' = IF session \in Owners /\ mine[session] = "open"
                     THEN Count(released) ELSE released
    /\ session' = IF session \in Owners THEN Stale ELSE session
    /\ mine' = [o \in Owners |-> "none"]
    /\ cmd' = [i \in Invocations |->
                 IF cmd[i].pc \in {"idle", "done"} THEN cmd[i]
                 ELSE Over(cmd, i, "cancelled", "")[i]]
    /\ UNCHANGED <<cfgVars, envVars, period, sleepLeft, tick, acquired>>

\* ------------------------------------------------------------------ specs ----
\* The steps of a process that is not being shut down.
Serve ==
    \/ Main
    \/ StartFails
    \/ setup_hook
    \/ on_ready
    \/ ChannelChange
    \/ before_price_updater
    \/ Hour
    \/ price_updater_no_target
    \/ price_updater_no_channel
    \/ price_updater_begin
    \/ price_updater_fetched
    \/ price_updater_sent
    \/ price_updater_failed
    \/ \E i \in Invocations, c \in Conversations : get_prices(i, c)
    \/ \E i \in Invocations : get_prices_begin(i)
    \/ \E i \in Invocations : get_prices_typing_failed(i)
    \/ \E i \in Invocations : get_prices_fetched(i)
    \/ \E i \in Invocations : get_prices_sent(i)
    \/ \E i \in Invocations : get_prices_failed(i)
    \/ \E i \in Invocations : get_prices_apologised(i)
    \/ \E i \in Invocations : get_prices_apology_failed(i)
    \/ \E i \in Invocations, ok \in BOOLEAN : on_command_error_sent(i, ok)
    \/ \E i \in Invocations, c \in Conversations : get_area(i, c)
    \/ \E i \in Invocations, c \in Conversations : get_status(i, c)
    \/ \E i \in Invocations : get_area_sent(i)
    \/ \E i \in Invocations : get_status_sent(i)
    \/ \E i \in Invocations : info_send_failed(i)

Next ==
    \/ Serve
    \/ Close
    \/ Return
    \/ Exit

Spec == Init /\ [][Next]_vars

\* The steps of the updater's task.
LoopStep ==
    \/ before_price_updater
    \/ Hour
    \/ price_updater_no_target
    \/ price_updater_no_channel
    \/ price_updater_begin
    \/ price_updater_fetched
    \/ price_updater_sent
    \/ price_updater_failed

\* A process that is never shut down.  The event loop runs a task that can
\* run: a sleep ends, the fetch returns, and a send returns or raises within
\* the transport's timeout.
LiveSpec == Init /\ [][Serve]_vars /\ WF_vars(LoopStep)

\* -------------------------------------------- the updater's start and stop ----
\* The updater as an object of its own, driven by any sequence of at most
\* MaxCalls calls; pureIn holds the calls made so far.
TimerInit ==
    /\ Environment
    /\ Unstarted
    /\ pureIn = [fn |-> "updater", calls |-> <<>>]
    /\ pureOut = NoCall

\* price_updater.stop(): the timer is disarmed if one is armed.
stop ==
    IF is_running
      THEN /\ running' = FALSE
           /\ loopPc' = "dead"
           /\ hist' = [hist EXCEPT !.armed = 0]
      ELSE UNCHANGED <<running, loopPc, hist>>

TimerStart ==
    /\ Len(pureIn.calls) < MaxCalls
    /\ pureIn' = [pureIn EXCEPT !.calls = Append(@, "start")]
    /\ start_if_idle
    /\ UNCHANGED <<token, channel_env, target_channel_id, update_interval_hours,
                   pureOut, mainPc, envVars, period, sleepLeft, tick, svcVars, cmd>>

TimerStop ==
    /\ Len(pureIn.calls) < MaxCalls
    /\ pureIn' = [pureIn EXCEPT !.calls = Append(@, "stop")]
    /\ stop
    /\ UNCHANGED <<token, channel_env, target_channel_id, update_interval_hours,
                   pureOut, mainPc, envVars, period, sleepLeft, tick, svcVars, cmd>>

TimerNext == TimerStart \/ TimerStop

TimerSpec == TimerInit /\ [][TimerNext]_vars

\* --------------------------------------------------- create_price_embed ----
\* Prices are whole cents; a price dict is the sequence of its entries in
\* insertion order, no fuel type twice.

\* The keys of base_prices, in the order they are written.
FuelOrder == <<"Regular", "Mid-Grade", "Premium", "Diesel">>

FuelTypes == {FuelOrder[k] : k \in 1..Len(FuelOrder)}

\* The fallback prices of fetch_gas_prices.
FallbackQuote ==
    <<[fuel |-> "Regular", price |-> 350], [fuel |-> "Mid-Grade", price |-> 380],
      [fuel |-> "Premium", price |-> 410], [fuel |-> "Diesel", price |-> 395]>>

\* The price dicts formatted: every subset of the fuel types in every order,
\* priced with the fallback amounts in every combination.
PriceValues == {FallbackQuote[k].price : k \in 1..Len(FallbackQuote)}

PriceDicts ==
    UNION {{q \in [1..n -> [fuel : FuelTypes, price : PriceValues]] :
              \A j, k \in 1..n : j # k => q[j].fuel # q[k].fuel} :
           n \in 0..Len(FuelOrder)}

Areas == {"Default City, State"}

\* f"{price:.2f}": dollars, a point and two digits of cents.
Format2f(cents) == <<cents \div 100, ".", (cents % 100) \div 10, cents % 10>>

\* The amount a formatted value shows, in cents.
Shown(value) == value[1] * 100 + value[3] * 10 + value[4]

\* create_price_embed(prices, area, auto_update): one field per entry of
\* prices, in the order prices.items() yields them.
create_price_embed(prices, area, auto_update) ==
    [title |-> IF auto_update THEN "Current Gas Prices (Auto Update)"
                              ELSE "Current Gas Prices",
     description |-> area,
     fields |-> [k \in 1..Len(prices) |->
                   [name |-> prices[k].fuel, value |-> Format2f(prices[k].price)]],
     footer |-> "Prices are estimates and may vary by station"]

FormatInit ==
    /\ token = TRUE /\ channel_env = "unset" /\ visible = TRUE
    /\ update_interval_hours = MaxHours
    /\ Unstarted
    /\ pureIn \in [fn : {"create_price_embed"}, prices : PriceDicts,
                   area : Areas, auto_update : BOOLEAN]
    /\ pureOut = NoCall

Format ==
    /\ pureIn.fn = "create_price_embed"
    /\ pureOut = NoCall
    /\ pureOut' = [fn |-> "create_price_embed",
                   embed |-> create_price_embed(pureIn.prices, pureIn.area,
                                                pureIn.auto_update)]
    /\ UNCHANGED <<token, channel_env, target_channel_id, update_interval_hours,
                   pureIn, mainPc, envVars, loopVars, svcVars, cmd, hist>>

FormatSpec == FormatInit /\ [][Format]_vars

\* ----------------------------------------------------- fetch_gas_prices ----
\* The base prices, in cents.
BasePrices ==
    <<[fuel |-> "Regular", price |-> 345], [fuel |-> "Mid-Grade", price |-> 375],
      [fuel |-> "Premium", price |-> 405], [fuel |-> "Diesel", price |-> 389]>>

\* random.uniform(-0.20, 0.20) once rounded to the cent: the two ends and
\* every VariationSteps-th part of the way between them.
Variations ==
    {v \in -MaxVariation..MaxVariation : (v * VariationSteps) % MaxVariation = 0}

\* Mutant: the variation is applied twice.
fetch_gas_prices_wide(area, variation, fails) ==
    IF fails THEN FallbackQuote
    ELSE [k \in 1..Len(BasePrices) |->
            [fuel |-> BasePrices[k].fuel,
             price |-> BasePrices[k].price + 2 * variation[BasePrices[k].fuel]]]

\* fetch_gas_prices(area): each base price plus its own variation, rounded to
\* the cent; the fallback prices if anything in the try block raises.
fetch_gas_prices(area, variation, fails) ==
    IF fails THEN FallbackQuote
    ELSE [k \in 1..Len(BasePrices) |->
            [fuel |-> BasePrices[k].fuel,
             price |-> BasePrices[k].price + variation[BasePrices[k].fuel]]]

FetchAreas == {"Default City, State", ""}

FetchInit ==
    /\ token = TRUE /\ channel_env = "unset" /\ visible = TRUE
    /\ update_interval_hours = MaxHours
    /\ Unstarted
    /\ pureIn \in [fn : {"fetch_gas_prices"}, area : FetchAreas]
    /\ pureOut = NoCall

Fetch ==
    /\ pureIn.fn = "fetch_gas_prices"
    /\ pureOut = NoCall
    /\ \E variation \in [FuelTypes -> Variations], fails \in BOOLEAN :
         pureOut' = [fn |-> "fetch_gas_prices", failed |-> fails,
                     prices |-> fetch_gas_prices(pureIn.area, variation, fails)]
    /\ UNCHANGED <<token, channel_env, target_channel_id, update_interval_hours,
                   pureIn, mainPc, envVars, loopVars, svcVars, cmd, hist>>

FetchSpec == FetchInit /\ [][Fetch]_vars

\* ----------------------------------- check_config.py, health_check.py ----
\* What an environment variable can hold: nothing, the empty string, a
\* placeholder with "your_" in it, text that is no number, or digits only.
EnvValues == {"unset", "empty", "placeholder", "text", "digits"}

\* The environment and the working directory the three scripts are run
\* in.
Setups ==
    [DISCORD_TOKEN : EnvValues, DISCORD_BOT_TOKEN : EnvValues,
     DISCORD_CHANNEL_ID : EnvValues, env_file : BOOLEAN, env_example : BOOLEAN,
     python_ok : BOOLEAN, bot_py : BOOLEAN, requirements : BOOLEAN]

\* bool(os.getenv(var)): the variable is set and not empty.
Truthy(value) == value \notin {"unset", "empty"}

\* check_env_file(): .env exists.
check_env_file(e) == e.env_file

\* The variables check_required_vars() asks for.
required_vars == {"DISCORD_BOT_TOKEN", "DISCORD_CHANNEL_ID"}

\* check_required_vars(): none of its variables is missing, empty or a
\* placeholder.
check_required_vars(e) ==
    \A var \in required_vars : ~(~Truthy(e[var]) \/ e[var] = "placeholder")

\* check_config.py: main() and the exit status of the script.
check_config_main(e) == check_env_file(e) /\ check_required_vars(e)

check_config_exit(e) == IF check_config_main(e) THEN 0 ELSE 1

\* bot.py main(): "if not discord_token" lets the bot be constructed and
\* started.
credential_check(e) == Truthy(e.DISCORD_TOKEN)

\* health_check(): the marks of its five checks, in order.
health_check(e) ==
    << IF Truthy(e.DISCORD_TOKEN) THEN "ok" ELSE "failure",
       IF Truthy(e.DISCORD_CHANNEL_ID) /\ e.DISCORD_CHANNEL_ID = "digits"
         THEN "ok" ELSE "warning",
       IF e.python_ok THEN "ok" ELSE "failure",
       IF e.bot_py THEN "ok" ELSE "failure",
       IF e.requirements THEN "ok" ELSE "failure" >>

\* The number of checks with the given mark.
Marked(checks, mark) == Cardinality({k \in 1..Len(checks) : checks[k] = mark})

\* health_check.py main(): 1 with a failure, 0 with warnings only or none.
health_check_main(e) ==
    LET failures == Marked(health_check(e), "failure")
        warnings == Marked(health_check(e), "warning")
    IN  IF failures > 0 THEN 1
        ELSE IF warnings > 0 THEN 0
        ELSE 0

ConfigInit ==
    /\ token = TRUE /\ channel_env = "unset" /\ visible = TRUE
    /\ update_interval_hours = MaxHours
    /\ Unstarted
    /\ pureIn \in [fn : {"diagnose"}, setup : Setups]
    /\ pureOut = [fn |-> "diagnose", check_config |-> Unset, bot |-> "pending",
                  health |-> Unset]

\* python check_config.py
RunCheckConfig ==
    /\ pureIn.fn = "diagnose"
    /\ pureOut.check_config = Unset
    /\ pureOut' = [pureOut EXCEPT !.check_config = check_config_exit(pureIn.setup)]
    /\ UNCHANGED <<token, channel_env, target_channel_id, update_interval_hours,
                   pureIn, mainPc, envVars, loopVars, svcVars, cmd, hist>>

\* python bot.py, up to the credential check of main().
RunBot ==
    /\ pureIn.fn = "diagnose"
    /\ pureOut.bot = "pending"
    /\ pureOut' = [pureOut EXCEPT !.bot = IF credential_check(pureIn.setup)
                                            THEN "starts" ELSE "returns"]
    /\ UNCHANGED <<token, channel_env, target_channel_id, update_interval_hours,
                   pureIn, mainPc, envVars, loopVars, svcVars, cmd, hist>>

\* python health_check.py
RunHealthCheck ==
    /\ pureIn.fn = "diagnose"
    /\ pureOut.health = Unset
    /\ pureOut' = [pureOut EXCEPT !.health = health_check_main(pureIn.setup)]
    /\ UNCHANGED <<token, channel_env, target_channel_id, update_interval_hours,
                   pureIn, mainPc, envVars, loopVars, svcVars, cmd, hist>>

ConfigNext == RunCheckConfig \/ RunBot \/ RunHealthCheck

ConfigSpec == ConfigInit /\ [][ConfigNext]_vars

\* ----------------------------------------------------------------- claims ----
\* The updater is inside a tick.
InTick == loopPc \in {"fetch", "send"}

\* C1: no scheduled tick (channel resolution, fetch or send) runs before the
\* readiness event has fired; the pre-loop hook gets past its first action,
\* the wait, only when readiness has fired.
C1_NoTickBeforeReady ==
    (\/ hist.ticks > 0
     \/ InTick
     \/ loopPc = "sleeping"
     \/ hist.setPeriods > 0
     \/ tick # NoTick) => ready

\* C1 witness: after readiness a tick has fetched and is sending.
C1_Witness == ready /\ hist.ticks > 0 /\ loopPc = "send" /\ tick.fetched

\* A scheduled cycle has just failed for the n-th time in a row.
FailedStreak(n) == hist.lastResult = "Err" /\ hist.failStreak = n

\* A fire has just happened: no hour has passed since, and the tick is in its
\* fetch or has returned early.
JustFired == hist.elapsed = 0 /\ (loopPc = "fetch" \/ hist.lastResult = "Skip")

\* C2: a failing scheduled cycle leaves the timer armed with its period, and
\* in a process that is not shut down the next tick fires after any number
\* of failing cycles in a row.
C2_FailureKeepsTimer ==
    /\ [](\A n \in 1..MaxCount :
            FailedStreak(n) =>
              /\ running
              /\ loopPc \in {"sleeping", "fetch", "send"}
              /\ period = update_interval_hours)
    /\ (\E n \in 1..MaxCount : FailedStreak(n)) ~> JustFired

\* C2 witness: after MaxCount failing cycles in a row the next tick is
\* running.
C2_Witness == hist.failStreak = MaxCount /\ hist.lastResult = "Err" /\ loopPc = "fetch"

\* C3: a cycle between its acquire and its release has its own session in
\* self.session, open: no other cycle has replaced or closed it.
C3_NoSharedSessionState ==
    \A o \in Owners : mine[o] # "none" => session = o /\ mine[o] = "open"

\* C4: every message of a scheduled tick is addressed to the configured
\* channel, and every message of an on-demand invocation (result, apology or
\* error notice) to the conversation it was invoked in.
C4_Routing ==
    /\ tick.sendTried => tick.to = target_channel_id /\ tick.to # None
    /\ \A i \in Invocations :
         cmd[i].pc \in {"send", "apology", "error_send"} =>
           cmd[i].to = cmd[i].conv /\ cmd[i].to # None

\* C4 witness: a scheduled tick is sending to the configured channel while an
\* invocation from another conversation is sending its apology there.
C4_Witness ==
    /\ loopPc = "send"
    /\ tick.to = ConfiguredChannel
    /\ \E i \in Invocations :
         /\ cmd[i].pc = "apology"
         /\ cmd[i].conv = OtherChannel
         /\ cmd[i].to = OtherChannel

\* C5: the timer starts with the placeholder period; the period is set once,
\* after readiness and before the first tick, so the first tick already runs
\* with the configured period.
C5_StartupOrder ==
    /\ loopPc = "before_loop" => period = DefaultHours /\ hist.ticks = 0
    /\ hist.setPeriods <= 1
    /\ hist.setPeriods > 0 => ready
    /\ hist.ticks > 0 =>
         /\ hist.setPeriods = 1
         /\ hist.firstPeriod = update_interval_hours
         /\ period = update_interval_hours

\* C5 witness: the first tick has fired, with a configured period that is
\* not the placeholder.
C5_Witness ==
    /\ hist.ticks = 1
    /\ hist.setPeriods = 1
    /\ hist.firstPeriod = update_interval_hours
    /\ update_interval_hours # DefaultHours

\* C6: every gap between two consecutive ticks is the configured interval,
\* and the period of a tick in flight is the configured one.
C6_GapIsConfigured ==
    /\ hist.lastGap # Unset => hist.lastGap = update_interval_hours
    /\ InTick => period = update_interval_hours

\* C6 witness: two ticks have fired, the configured interval apart.
C6_Witness ==
    /\ hist.ticks >= 2
    /\ hist.lastGap = update_interval_hours
    /\ update_interval_hours # DefaultHours

\* The last scheduled tick found its configured channel unavailable.
TickUnavailable == target_channel_id # None /\ hist.ticks > 0 /\ ~tick.avail

\* C7: a tick whose channel resolution returns unavailable fetches nothing,
\* sends nothing and enters no session; the timer stays armed with its
\* period, and the next fire is due one period after this one.
C7_UnavailableSkips ==
    TickUnavailable =>
      /\ tick.chan = None
      /\ ~tick.fetched
      /\ ~tick.sendTried
      /\ mine[Sched] = "none"
      /\ hist.lastResult = "Skip"
      /\ Alive =>
           /\ running
           /\ loopPc = "sleeping"
           /\ period = update_interval_hours
           /\ sleepLeft + hist.elapsed = period

\* C7 witness: a tick was skipped for want of its channel, one more hour of
\* the timer's sleep has passed, and the tick before it had posted.
C7_Witness ==
    /\ TickUnavailable
    /\ hist.lastResult = "Skip"
    /\ hist.elapsed > 0
    /\ hist.ticks >= 2

\* C8: with a channel configured, a tick posts if and only if the channel is
\* available when that tick resolves it, whatever on_ready or earlier ticks
\* found.
C8_ResolvedEveryTick ==
    (target_channel_id # None /\ hist.ticks > 0 /\ loopPc # "dead") =>
      /\ tick.avail <=> (loopPc = "fetch" \/ tick.sendTried)
      /\ tick.avail <=> tick.chan = target_channel_id

\* C8 witness: the channel was missing at readiness, a tick was skipped, and
\* a later tick posts to the channel that has become available again.
C8_Witness ==
    /\ readyChannel = None
    /\ hist.ticks >= 2
    /\ hist.lastResult = "Skip"
    /\ tick.avail
    /\ tick.sendTried

\* The caller of invocation i has got a failure notice.
Reported(i) == cmd[i].got \cap {"apology", "generic"} # {}

\* C9 as stated: every on-demand invocation whose send has failed ends with
\* a failure notice delivered to the caller.
C9_FailureAlwaysReported ==
    \A i \in Invocations : cmd[i].pc = "done" /\ cmd[i].failed => Reported(i)

\* C9 as amended: after a failure the apology is sent to the invoking
\* conversation, and if that send fails the global handler sends its notice
\* there; the invocation ends without a notice only when both sends failed.
C9_ApologyAttempted ==
    \A i \in Invocations :
      cmd[i].failed /\ cmd[i].pc # "cancelled" =>
        /\ "apology" \in cmd[i].tried
        /\ cmd[i].pc \in {"apology", "error_send", "done"}
        /\ cmd[i].pc = "apology" => cmd[i].to = cmd[i].conv
        /\ cmd[i].pc = "error_send" =>
             "generic" \in cmd[i].tried /\ cmd[i].to = cmd[i].conv
        /\ cmd[i].pc = "done" =>
             \/ Reported(i)
             \/ {"apology", "generic"} \subseteq cmd[i].tried

\* C9 witness: an invocation whose send failed has ended with the apology
\* delivered.
C9_Witness ==
    \E i \in Invocations :
      cmd[i].pc = "done" /\ cmd[i].failed /\ "apology" \in cmd[i].got

\* C10 as stated: one session is acquired at startup, it is open during
\* every cycle, and it is closed once at shutdown.
C10_SessionOncePerRun ==
    /\ Alive => acquired = 1
    /\ \A o \in Owners : mine[o] # "none" => mine[o] = "open"
    /\ mainPc = "exited" /\ loopPc # "unstarted" => released = 1

\* C11 as stated: shutdown disarms the timer before it releases the client
\* and does not return while the timer is armed, and no cycle in flight is
\* cut short: once main() has returned the updater is not running, and no
\* invocation ends cancelled.
C11_TimerDisarmedAtShutdown ==
    /\ mainPc = "returned" => ~running /\ hist.armed = 0
    /\ \A i \in Invocations : cmd[i].pc # "cancelled"

\* C12 as stated: without DISCORD_TOKEN the process ends with a nonzero
\* status and bot.start() was never called.
C12_MissingTokenExitsNonzero ==
    ~token /\ mainPc # "main" =>
      /\ mainPc \in {"exited", "crashed"}
      /\ hist.exitStatus # 0
      /\ ~hist.started

\* C13 as stated: with DISCORD_CHANNEL_ID unset, empty or no number, and the
\* credential present, the process starts, every tick is skipped with the
\* timer left running, and price requests are taken while the bot serves.
C13_AbsentChannelStillServes ==
    token /\ channel_env # "digits" /\ mainPc # "main" =>
      /\ hist.started
      /\ mainPc # "crashed"
      /\ hist.ticks > 0 => hist.lastResult = "Skip" /\ (Alive => running)
      /\ mainPc = "serving" =>
           \A i \in Invocations : cmd[i].pc = "idle" =>
             \E c \in Conversations : ENABLED get_prices(i, c)

\* C14: over any sequence of start and stop calls at most one timer is
\* armed, and one is armed exactly when the updater reports running: a start
\* while running and a stop while idle change nothing, and a start after a
\* stop arms one timer.
C14_AtMostOneTimer ==
    /\ hist.armed <= 1
    /\ is_running <=> hist.armed = 1
    /\ pureIn.fn = "updater" /\ pureIn.calls # <<>> =>
         is_running = (pureIn.calls[Len(pureIn.calls)] = "start")

\* C14 witness: a sequence with a start repeated while running and a start
\* after a stop has left one timer armed.
C14_Witness ==
    /\ pureIn.fn = "updater"
    /\ Len(pureIn.calls) = MaxCalls
    /\ \E j, k \in 1..(MaxCalls - 1) :
         /\ pureIn.calls[j] = "start" /\ pureIn.calls[j + 1] = "start"
         /\ pureIn.calls[k] = "stop" /\ pureIn.calls[k + 1] = "start"
    /\ is_running /\ hist.armed = 1

\* The formatter has returned.
Formatted == pureOut.fn = "create_price_embed"

\* C15 as stated: for a price set with at least one entry the message has
\* one field per entry and the amounts shown never decrease from one field
\* to the next, whatever order the entries came in.
C15_FieldsCheapestFirst ==
    Formatted /\ Len(pureIn.prices) >= 1 =>
      /\ Len(pureOut.embed.fields) = Len(pureIn.prices)
      /\ \A j, k \in 1..Len(pureOut.embed.fields) :
           j < k => Shown(pureOut.embed.fields[j].value)
                      <= Shown(pureOut.embed.fields[k].value)

\* C16 as stated: for an empty price set the formatter returns the fixed
\* "unable to fetch" message, never a message with an empty list of prices.
C16_EmptyGivesUnableToFetch ==
    Formatted /\ Len(pureIn.prices) = 0 =>
      /\ pureOut.embed.title = "unable to fetch"
      /\ pureOut.embed.fields # <<>>

\* A step of an on-demand command: an invocation arrives, or one moves on,
\* while main() stays where it is.
CommandStep == cmd' # cmd /\ mainPc' = mainPc

\* C17: no step of an on-demand command (prices, area, status), succeeding
\* or failing, changes whether the updater runs, its period or the
\* configured channel id.
C17_CommandsLeaveScheduler ==
    [][CommandStep => UNCHANGED <<running, period, target_channel_id>>]_vars

\* C17 witness: with the updater running on its configured period, a status
\* command has been answered.
C17_Witness ==
    /\ running /\ hist.setPeriods > 0 /\ period # DefaultHours
    /\ \E i \in Invocations : cmd[i].pc = "done" /\ "status" \in cmd[i].got

\* fetch_gas_prices has returned.
Fetched == pureOut.fn = "fetch_gas_prices"

\* The price quoted for a fuel type in a quote that lists it once.
PriceOf(quote, fuel) ==
    quote[CHOOSE k \in 1..Len(quote) : quote[k].fuel = fuel].price

\* C18: whatever the area, fetch_gas_prices returns a quote of exactly the
\* four fuel types Regular, Mid-Grade, Premium and Diesel, each once, with
\* every price non-negative and either all within 20 cents of the base prices
\* 345, 375, 405 and 389 or, after a failure inside, the fallback prices 350,
\* 380, 410 and 395.
C18_FetchReturnsQuote ==
    Fetched =>
      /\ Len(pureOut.prices) = 4
      /\ \A fuel \in {"Regular", "Mid-Grade", "Premium", "Diesel"} :
           Cardinality({k \in 1..Len(pureOut.prices) :
                          pureOut.prices[k].fuel = fuel}) = 1
      /\ \A k \in 1..Len(pureOut.prices) : pureOut.prices[k].price >= 0
      /\ IF pureOut.failed
           THEN /\ PriceOf(pureOut.prices, "Regular") = 350
                /\ PriceOf(pureOut.prices, "Mid-Grade") = 380
                /\ PriceOf(pureOut.prices, "Premium") = 410
                /\ PriceOf(pureOut.prices, "Diesel") = 395
           ELSE /\ PriceOf(pureOut.prices, "Regular") \in (345 - 20)..(345 + 20)
                /\ PriceOf(pureOut.prices, "Mid-Grade") \in (375 - 20)..(375 + 20)
                /\ PriceOf(pureOut.prices, "Premium") \in (405 - 20)..(405 + 20)
                /\ PriceOf(pureOut.prices, "Diesel") \in (389 - 20)..(389 + 20)

\* C18 witness: a quote at the two ends of the range: Regular 20 cents above
\* its base price and Diesel 20 cents below.
C18_Witness ==
    /\ Fetched /\ ~pureOut.failed
    /\ PriceOf(pureOut.prices, "Regular") = 365
    /\ PriceOf(pureOut.prices, "Diesel") = 369

\* C19 as stated: every session a cycle opens is closed once, by that cycle,
\* before the cycle ends: between cycles as many sessions have been closed
\* as were opened and self.session holds no open one, and a cycle in flight
\* never finds self.session holding a session already closed (which its
\* release would close again) or its own session closed by another.
C19_SessionsClosedOnce ==
    /\ InFlight = {} => acquired = released /\ session \in {NoSession, Stale}
    /\ InFlight # {} => session # Stale
    /\ \A o \in Owners : mine[o] # "closed"

\* The three scripts have run.
Diagnosed ==
    /\ pureOut.fn = "diagnose"
    /\ pureOut.check_config # Unset /\ pureOut.bot # "pending" /\ pureOut.health # Unset

\* C20 as stated: whenever check_config.py reports the configuration good,
\* bot.py passes its credential check and goes on to start the bot; and
\* health_check.py returns 1 exactly when one of its checks failed, warnings
\* alone giving 0, a missing DISCORD_TOKEN always being a failure.
C20_CheckerAgreesWithBot ==
    Diagnosed =>
      /\ pureOut.check_config = 0 => pureOut.bot = "starts"
      /\ pureOut.health = 1 <=>
           \E k \in 1..Len(health_check(pureIn.setup)) :
             health_check(pureIn.setup)[k] = "failure"
      /\ pureOut.health \in {0, 1}
      /\ pureIn.setup.DISCORD_TOKEN \in {"unset", "empty"} => pureOut.health = 1
=============================================================================
